---- MODULE Spec2Model ----
(***************************************************************************)
(* Cloud-browser HTTP API: the persistent Express server (src/server.js),  *)
(* the serverless handlers api/create-session.js, api/navigate.js and      *)
(* api/close-session.js (src/unnamed/part_001) and the simulation server   *)
(* (src/unnamed/part_000).                                                 *)
(*                                                                         *)
(* A deployment runs one of the three programs (variable variant).  Every  *)
(* handler is cut at its awaits: one action per synchronous stretch of     *)
(* the handler, the awaited library call settling ("ok" or a thrown error) *)
(* at the start of the next one.                                           *)
(***************************************************************************)
EXTENDS Integers, Sequences, FiniteSets, TLC

\* ------------------------------------------------------------------ bounds
MaxBrowsers == 2    \* browser launches started in one run
MaxInFlight == 2    \* handler invocations that exist at the same time
MaxNow == 1         \* Date.now() takes the values 0..MaxNow
MaxRnd == 1         \* Math.random() suffixes 1..MaxRnd
MaxCloseCalls == 2  \* close() calls counted per browser (the count saturates)

\* the invocations observed: a new request takes the place of a finished one
Reqs == 1..MaxInFlight

\* ------------------------------------------------------- program constants
SimDelayMin == 1        \* 500 ms, in units of 500 ms
SimDelayMax == 5        \* 2500 ms
SimAbortAfter == 10     \* 5000 ms

Variants == {"persistent", "serverless", "simulation"}

\* One activeBrowserSessions Map per module that declares one.
Modules == {"server", "create", "navigate", "close"}

Endpoints == {"create-session", "navigate", "screenshot", "close-session"}

\* --------------------------------------------------------------- strings
\* `session-${Date.now()}-${Math.random().toString(36).substring(2, 9)}`
SessionIdOf(ts, rnd) == [prefix |-> "session", ts |-> ts, rnd |-> rnd]

\* a missing (undefined / empty) sessionId in a request
NoId == [prefix |-> "", ts |-> 0, rnd |-> 0]

\* `/browser-view-placeholder.html?session_id=${sessionId}`
LiveViewUrlOf(path, id) == [path |-> path, session_id |-> id]

NoUrl == LiveViewUrlOf("", NoId)

\* identifiers a client may send: every id the server can issue, or none
ClientIds == {SessionIdOf(t, k) : t \in 0..MaxNow, k \in 1..MaxRnd} \cup {NoId}

\* the url field of a navigate body: missing, or some url
ClientUrls == {"", "http://u"}

\* ------------------------------------------------------ library outcomes
\* An awaited library call resolves ("ok") or rejects with an error; the
\* handlers look at error.name and at whether error.message mentions
\* libnss3.so, nothing else.
Errors == {"Error", "TimeoutError", "AbortError", "libnss3"}

Outcomes == {"ok"} \cup Errors

ErrorName(e) == IF e = "libnss3" THEN "Error" ELSE e

MentionsLibnss3(e) == e = "libnss3"

\* ------------------------------------------------------------ Map (ES6)
\* A Map is its entry list in insertion order.
NoSession == [browser |-> 0, page |-> 0]     \* Map.get() of a missing key

MapIndex(m, k) ==
  IF \E i \in 1..Len(m) : m[i].key = k
  THEN CHOOSE i \in 1..Len(m) : m[i].key = k
  ELSE 0

MapHas(m, k) == MapIndex(m, k) # 0

MapGet(m, k) == IF MapHas(m, k) THEN m[MapIndex(m, k)].value ELSE NoSession

MapSet(m, k, v) ==
  IF MapHas(m, k)
  THEN [m EXCEPT ![MapIndex(m, k)].value = v]
  ELSE Append(m, [key |-> k, value |-> v])

MapDelete(m, k) ==
  IF MapHas(m, k)
  THEN SubSeq(m, 1, MapIndex(m, k) - 1) \o SubSeq(m, MapIndex(m, k) + 1, Len(m))
  ELSE m

MapKeys(m) == {m[i].key : i \in 1..Len(m)}

\* ------------------------------------------------------------------ state
VARIABLES
  variant,                \* which program is deployed
  now,                    \* Date.now()
  activeBrowserSessions,  \* module -> Map sessionId -> {browser, page}
  browsers,               \* browsers launched so far: close() calls, closed?
  req,                    \* handler invocation (locals, response)
  sig,                    \* the SIGINT handler of the persistent server
  closedSessions          \* ids for which close-session has answered success

vars == <<variant, now, activeBrowserSessions, browsers, req, sig, closedSessions>>

\* ------------------------------------------------------------- responses
NoBody == [kind |-> "none", id |-> NoId, live_view_url |-> NoUrl,
           headless |-> FALSE, text |-> ""]

ErrorBody(text) == [NoBody EXCEPT !.kind = "error", !.text = text]

SuccessBody(text) == [NoBody EXCEPT !.kind = "success", !.text = text]

\* { data: { id, live_view_url, browser_info: { viewport, headless } } }
DataBody(id, liveViewUrl, headless) ==
  [kind |-> "data", id |-> id, live_view_url |-> liveViewUrl,
   headless |-> headless, text |-> ""]

\* a handler invocation that has not been received yet
IdleReq ==
  [ep |-> "none", method |-> "none", sessionId |-> NoId, url |-> "",
   pc |-> "idle",
   browserInstance |-> 0, pageInstance |-> 0, sessionData |-> NoSession,
   browserWasNewlyLaunched |-> FALSE, error |-> "none",
   timer |-> "unset", delay |-> 0, age |-> 0,
   status |-> 0, body |-> NoBody, acao |-> FALSE, responses |-> 0,
   bodyRead |-> FALSE]

\* res.status(s).json(b) / res.status(s).end(): the response leaves now
Respond(rec, s, b) ==
  [rec EXCEPT !.status = s, !.body = b, !.responses = rec.responses + 1]

\* the handler returns: its locals go; the request, the browser it
\* launched, the error it caught and its response stay on record
Finish(rec) ==
  [rec EXCEPT !.pc = "done", !.pageInstance = 0,
              !.sessionData = NoSession, !.browserWasNewlyLaunched = FALSE,
              !.delay = 0, !.age = 0]

\* catch (error)
Caught(rec, e) == [rec EXCEPT !.error = e]

\* ------------------------------------------------------------- scheduling
Alive == sig.pc # "exited"

\* a request is received: a new handler invocation starts, on record in
\* the first place that is free
Free(r) == req[r].pc \in {"idle", "done"}

CanReceive(r) ==
  /\ Alive
  /\ Free(r)
  /\ \A q \in Reqs : q < r => ~Free(q)

Awaiting(r, pc) == Alive /\ req[r].pc = pc

\* invocation r goes on as rec; the one finished invocation kept on record
\* is the latest
Step(r, rec) ==
  [q \in Reqs |->
     IF q = r THEN rec
     ELSE IF rec.pc = "done" /\ req[q].pc = "done" THEN IdleReq
     ELSE req[q]]

\* --------------------------------------------------------------- browsers
\* puppeteer.launch() / chromium.launch() resolved: a new browser
Launch(bs) == Append(bs, [closeCalls |-> 0, closed |-> FALSE])

\* browser.close() is called
CallClose(bs, b) ==
  [bs EXCEPT ![b].closeCalls =
     IF bs[b].closeCalls < MaxCloseCalls THEN bs[b].closeCalls + 1 ELSE MaxCloseCalls]

\* browser.close() resolved
Closed(bs, b) == [bs EXCEPT ![b].closed = TRUE]

\* launches started so far: the browsers running or closed, and the
\* launch calls that have not settled yet
LaunchesStarted ==
  Len(browsers) + Cardinality({r \in Reqs : req[r].pc = "launch"})

CanLaunch == LaunchesStarted < MaxBrowsers

\* a page operation can only resolve on a browser that is still running
PageOutcomes(b) == IF browsers[b].closed THEN Errors ELSE Outcomes

Init ==
  /\ variant \in Variants
  /\ now = 0
  /\ activeBrowserSessions = [m \in Modules |-> <<>>]
  /\ browsers = <<>>
  /\ req = [r \in Reqs |-> IdleReq]
  /\ sig = [pc |-> "running", idx |-> 0, browser |-> 0]
  /\ closedSessions = {}

\* Date.now() advances
Tick ==
  /\ Alive
  /\ now < MaxNow
  /\ now' = now + 1
  /\ UNCHANGED <<variant, activeBrowserSessions, browsers, req, sig, closedSessions>>


\* ================================================================ Express
\* src/server.js and src/unnamed/part_000 run the same middleware chain
\* before any route: express.json(), cors(), express.static().
Express == variant \in {"persistent", "simulation"}

\* the routes each program registers
Routes ==
  IF variant = "persistent" THEN Endpoints
  ELSE IF variant = "simulation" THEN {"create-session"}
  ELSE {}

\* app.post(...) matches POST only, app.get(...) GET only
RouteMethod(ep) == IF ep = "screenshot" THEN "GET" ELSE "POST"

\* app.use(cors()) ends a pre-flight request itself, with the package's
\* default optionsSuccessStatus, before any route is tried
CorsPreflight(rec) == Finish(Respond([rec EXCEPT !.acao = TRUE], 204, NoBody))

\* app.use(express.json()), the first middleware: a JSON body, if the
\* request carries one, is read and parsed into req.body
ExpressJson(rec, hasBody) == [rec EXCEPT !.bodyRead = hasBody]

\* an OPTIONS request to an Express server, any path
ExpressOptions(r) ==
  /\ Express
  /\ CanReceive(r)
  /\ \E ep \in Routes, hasBody \in BOOLEAN :
       req' = Step(r, CorsPreflight(ExpressJson([IdleReq EXCEPT !.ep = ep,
                                                                !.method = "OPTIONS"],
                                                hasBody)))
  /\ UNCHANGED <<variant, now, activeBrowserSessions, browsers, sig, closedSessions>>

\* a request as it reaches its route: express.json() has parsed the body
\* that navigate and close-session requests carry, cors() has set the header
Routed(ep, id, u) ==
  [ExpressJson(IdleReq, ep \in {"navigate", "close-session"})
     EXCEPT !.ep = ep, !.method = RouteMethod(ep), !.sessionId = id,
            !.url = u, !.acao = TRUE]

\* ------------------------------------------- server.js  /api/create-session
\* lines 29-58: headers, method checks, the 30 s timer, puppeteer.launch()
ServerCreateSession(r) ==
  /\ variant = "persistent"
  /\ CanReceive(r)
  /\ CanLaunch
  /\ req' = Step(r,               [Routed("create-session", NoId, "") EXCEPT
                  !.timer = "armed", !.pc = "launch"])
  /\ UNCHANGED <<variant, now, activeBrowserSessions, browsers, sig, closedSessions>>

\* clearTimeout(timeoutId)
ClearTimeout(rec) == [rec EXCEPT !.timer = "cleared"]

\* setTimeout(() => controller.abort(), 30000) fires: the signal is given
\* to no one, so nothing else happens
ControllerAbort(rec) == [rec EXCEPT !.timer = "fired"]

\* lines 98-111 from the point where the browser, if any, has been dealt with
ServerCreateFail(rec, e) ==
  Finish(ClearTimeout(IF ErrorName(e) = "AbortError"
                      THEN Respond(Caught(rec, e), 504, ErrorBody("Browser launch timed out."))
                      ELSE Respond(Caught(rec, e), 500, ErrorBody("error.message"))))

\* lines 98-103: catch entered with the error e
ServerCreateCatch(rec, e) ==
  IF rec.browserInstance # 0
  THEN [ClearTimeout(Caught(rec, e)) EXCEPT !.pc = "catchClose"]
  ELSE ServerCreateFail(rec, e)

\* line 58: puppeteer.launch() settles
ServerCreateLaunched(r) ==
  /\ variant = "persistent"
  /\ Awaiting(r, "launch")
  /\ \E o \in Outcomes :
       IF o = "ok"
       THEN /\ browsers' = Launch(browsers)
            /\ req' = Step(r, [req[r] EXCEPT !.browserInstance = Len(browsers) + 1,
                                              !.pc = "newPage"])
       ELSE /\ req' = Step(r, ServerCreateCatch(req[r], o))
            /\ UNCHANGED browsers
  /\ UNCHANGED <<variant, now, activeBrowserSessions, sig, closedSessions>>

\* line 71: browserInstance.newPage() settles
ServerCreateNewPage(r) ==
  /\ variant = "persistent"
  /\ Awaiting(r, "newPage")
  /\ \E o \in PageOutcomes(req[r].browserInstance) :
       IF o = "ok"
       THEN /\ req' = Step(r, [req[r] EXCEPT !.pageInstance = req[r].browserInstance,
                                              !.pc = "setViewport"])
            /\ UNCHANGED browsers
       ELSE /\ req' = Step(r, ServerCreateCatch(req[r], o))
            /\ browsers' = CallClose(browsers, req[r].browserInstance)
  /\ UNCHANGED <<variant, now, activeBrowserSessions, sig, closedSessions>>

\* lines 76-96 and 113: the id, the record, the response, clearTimeout
ServerCreateStore(rec, sessionId) ==
  Finish(ClearTimeout(
    Respond([rec EXCEPT !.sessionId = sessionId], 200,
            DataBody(sessionId,
                     LiveViewUrlOf("/browser-view-placeholder.html", sessionId),
                     TRUE))))

\* the record stored without its page
StoreSession_NoPage(m, sessionId, rec) ==
  MapSet(m, sessionId, [browser |-> rec.browserInstance, page |-> 0])

\* line 78: activeBrowserSessions.set(sessionId, { browser, page })
StoreSession(m, sessionId, rec) ==
  MapSet(m, sessionId, [browser |-> rec.browserInstance, page |-> rec.pageInstance])

\* line 73: pageInstance.setViewport() settles
ServerCreateSetViewport(r) ==
  /\ variant = "persistent"
  /\ Awaiting(r, "setViewport")
  /\ \E o \in PageOutcomes(req[r].browserInstance) :
       IF o = "ok"
       THEN \E k \in 1..MaxRnd :
              /\ activeBrowserSessions' =
                   [activeBrowserSessions EXCEPT
                      !["server"] = StoreSession(@, SessionIdOf(now, k), req[r])]
              /\ req' = Step(r, ServerCreateStore(req[r], SessionIdOf(now, k)))
              /\ UNCHANGED browsers
       ELSE /\ req' = Step(r, ServerCreateCatch(req[r], o))
            /\ browsers' = CallClose(browsers, req[r].browserInstance)
            /\ UNCHANGED activeBrowserSessions
  /\ UNCHANGED <<variant, now, sig, closedSessions>>

\* line 102: browserInstance.close().catch(...) settles, either way
ServerCreateCatchClosed(r) ==
  /\ variant = "persistent"
  /\ Awaiting(r, "catchClose")
  /\ \E o \in {"ok", "Error"} :
       browsers' = IF o = "ok" THEN Closed(browsers, req[r].browserInstance)
                   ELSE browsers
  /\ req' = Step(r, ServerCreateFail(req[r], req[r].error))
  /\ UNCHANGED <<variant, now, activeBrowserSessions, sig, closedSessions>>

\* an abort timer that does not wait for its time
CreateTimeout_Early(r) ==
  /\ Express
  /\ Alive
  /\ req[r].timer = "armed"
  /\ req' = Step(r, ControllerAbort(req[r]))
  /\ UNCHANGED <<variant, now, activeBrowserSessions, browsers, sig, closedSessions>>

\* line 47 (server.js) / line 42 (simulation): the abort timer fires
CreateTimeout(r) ==
  /\ Express
  /\ Alive
  /\ req[r].timer = "armed"
  /\ variant = "simulation" => req[r].age >= SimAbortAfter
  /\ req' = Step(r, ControllerAbort(req[r]))
  /\ UNCHANGED <<variant, now, activeBrowserSessions, browsers, sig, closedSessions>>

\* ------------------------------------------------ server.js  /api/navigate
\* lines 124 / 180: a required field is missing (undefined or empty)
MissingId(sessionId) == sessionId = NoId

\* the field check without its url half
MissingUrl_Unchecked(url) == FALSE

MissingUrl(url) == url = ""

\* lines 129, 156: !sessionData || !sessionData.page
NoPage(sessionData) == sessionData = NoSession \/ sessionData.page = 0

\* the handler without its lookup check: sessionData.page throws inside
\* the try block and the catch answers 500
ServerNavigateReceive_NoLookupCheck(rec) ==
  IF MissingId(rec.sessionId) \/ MissingUrl(rec.url)
  THEN Finish(Respond(rec, 400, ErrorBody("Session ID and URL are required.")))
  ELSE IF NoPage(MapGet(activeBrowserSessions["server"], rec.sessionId))
  THEN Finish(Respond(rec, 500, ErrorBody("error.message")))
  ELSE [rec EXCEPT !.sessionData = MapGet(activeBrowserSessions["server"], rec.sessionId),
                   !.pc = "goto"]

\* lines 122-138: the field check, the lookup, page.goto() is called
ServerNavigateReceive(rec) ==
  IF MissingId(rec.sessionId) \/ MissingUrl(rec.url)
  THEN Finish(Respond(rec, 400, ErrorBody("Session ID and URL are required.")))
  ELSE IF NoPage(MapGet(activeBrowserSessions["server"], rec.sessionId))
  THEN Finish(Respond(rec, 404,
                      ErrorBody("Session not found or invalid. Please create a new session.")))
  ELSE [rec EXCEPT !.sessionData = MapGet(activeBrowserSessions["server"], rec.sessionId),
                   !.pc = "goto"]

ServerNavigate(r) ==
  /\ variant = "persistent"
  /\ CanReceive(r)
  /\ \E id \in ClientIds, u \in ClientUrls :
       req' = Step(r, ServerNavigateReceive(Routed("navigate", id, u)))
  /\ UNCHANGED <<variant, now, activeBrowserSessions, browsers, sig, closedSessions>>

\* the handler with a catch that logs the error and sends nothing
ServerNavigateRespond_SilentCatch(rec, o) ==
  IF o = "ok"
  THEN Finish(Respond(rec, 200, SuccessBody("Navigated to url")))
  ELSE Finish(Caught(rec, o))

\* lines 139-144: the outcome of page.goto() becomes the response
ServerNavigateRespond(rec, o) ==
  IF o = "ok"
  THEN Finish(Respond(rec, 200, SuccessBody("Navigated to url")))
  ELSE Finish(Respond(Caught(rec, o), 500, ErrorBody("error.message")))

\* a handler that drops the session whose navigation failed
ServerNavigateGoto_DropsOnError(r) ==
  /\ variant = "persistent"
  /\ Awaiting(r, "goto")
  /\ \E o \in PageOutcomes(req[r].sessionData.browser) :
       /\ req' = Step(r, ServerNavigateRespond(req[r], o))
       /\ activeBrowserSessions' =
            IF o = "ok" THEN activeBrowserSessions
            ELSE [activeBrowserSessions EXCEPT !["server"] = MapDelete(@, req[r].sessionId)]
  /\ UNCHANGED <<variant, now, browsers, sig, closedSessions>>

\* line 138: page.goto() settles
ServerNavigateGoto(r) ==
  /\ variant = "persistent"
  /\ Awaiting(r, "goto")
  /\ \E o \in PageOutcomes(req[r].sessionData.browser) :
       req' = Step(r, ServerNavigateRespond(req[r], o))
  /\ UNCHANGED <<variant, now, activeBrowserSessions, browsers, sig, closedSessions>>

\* ------------------------------------- server.js  /api/screenshot/:sessionId
\* lines 153-163: the lookup, page.screenshot() is called
ServerScreenshotReceive(rec) ==
  IF NoPage(MapGet(activeBrowserSessions["server"], rec.sessionId))
  THEN Finish(Respond(rec, 404,
                      ErrorBody("Session not found or invalid. Please create a new session.")))
  ELSE [rec EXCEPT !.sessionData = MapGet(activeBrowserSessions["server"], rec.sessionId),
                   !.pc = "screenshot"]

\* a route parameter is never empty
ServerScreenshot(r) ==
  /\ variant = "persistent"
  /\ CanReceive(r)
  /\ \E id \in ClientIds \ {NoId} :
       req' = Step(r, ServerScreenshotReceive(Routed("screenshot", id, "")))
  /\ UNCHANGED <<variant, now, activeBrowserSessions, browsers, sig, closedSessions>>

\* lines 164-170
ServerScreenshotRespond(rec, o) ==
  IF o = "ok"
  THEN Finish(Respond(rec, 200, SuccessBody("image")))
  ELSE Finish(Respond(Caught(rec, o), 500, ErrorBody("error.message")))

\* line 163: page.screenshot() settles
ServerScreenshotTaken(r) ==
  /\ variant = "persistent"
  /\ Awaiting(r, "screenshot")
  /\ \E o \in PageOutcomes(req[r].sessionData.browser) :
       req' = Step(r, ServerScreenshotRespond(req[r], o))
  /\ UNCHANGED <<variant, now, activeBrowserSessions, browsers, sig, closedSessions>>

\* ------------------------------------------- server.js  /api/close-session
\* lines 178-192: the field check, the lookup, browser.close() is called
ServerCloseReceive(rec) ==
  IF MissingId(rec.sessionId)
  THEN Finish(Respond(rec, 400, ErrorBody("Session ID is required.")))
  ELSE IF MapGet(activeBrowserSessions["server"], rec.sessionId) = NoSession
  THEN Finish(Respond(rec, 404, ErrorBody("Session not found.")))
  ELSE [rec EXCEPT !.sessionData = MapGet(activeBrowserSessions["server"], rec.sessionId),
                   !.pc = "close"]

ServerCloseSession(r) ==
  /\ variant = "persistent"
  /\ CanReceive(r)
  /\ \E id \in ClientIds :
       /\ req' = Step(r, ServerCloseReceive(Routed("close-session", id, "")))
       /\ browsers' = IF req'[r].pc = "close"
                      THEN CallClose(browsers, req'[r].sessionData.browser)
                      ELSE browsers
  /\ UNCHANGED <<variant, now, activeBrowserSessions, sig, closedSessions>>

\* the SIGINT loop's Map iterator after a delete: an entry it has passed
\* is gone, the entries it has not visited are the same
IteratorAfterDelete(s, m, k) ==
  IF MapHas(m, k) /\ MapIndex(m, k) <= s.idx THEN [s EXCEPT !.idx = s.idx - 1] ELSE s

\* the success response sent whatever browser.close() did
CloseSessionRespond_AlwaysSuccess(rec, o) ==
  IF o = "ok"
  THEN Finish(Respond(rec, 200, SuccessBody("Session closed.")))
  ELSE Finish(Respond(Caught(rec, o), 200, SuccessBody("Session closed.")))

\* lines 193-196 / 197-200
CloseSessionRespond(rec, o) ==
  IF o = "ok"
  THEN Finish(Respond(rec, 200, SuccessBody("Session closed.")))
  ELSE Finish(Respond(Caught(rec, o), 500, ErrorBody("error.message")))

\* the Map the close-session handler of the deployed program reads
CloseModule == IF variant = "persistent" THEN "server" ELSE "close"

\* the record deleted whether browser.close() resolved or threw
CloseSessionClosed_DeletesAlways(r) ==
  /\ Awaiting(r, "close")
  /\ \E o \in Outcomes :
       /\ req' = Step(r, CloseSessionRespond(req[r], o))
       /\ browsers' = IF o = "ok" THEN Closed(browsers, req[r].sessionData.browser)
                      ELSE browsers
       /\ activeBrowserSessions' =
            [activeBrowserSessions EXCEPT
               ![CloseModule] = MapDelete(@, req[r].sessionId)]
       /\ sig' = IF variant = "persistent"
                 THEN IteratorAfterDelete(sig, activeBrowserSessions["server"],
                                          req[r].sessionId)
                 ELSE sig
       /\ closedSessions' = IF o = "ok" THEN closedSessions \cup {req[r].sessionId}
                            ELSE closedSessions
  /\ UNCHANGED <<variant, now>>

\* the record left in the table after browser.close() resolved
CloseSessionClosed_KeepsRecord(r) ==
  /\ Awaiting(r, "close")
  /\ \E o \in Outcomes :
       /\ req' = Step(r, CloseSessionRespond(req[r], o))
       /\ browsers' = IF o = "ok" THEN Closed(browsers, req[r].sessionData.browser)
                      ELSE browsers
       /\ closedSessions' = IF o = "ok" THEN closedSessions \cup {req[r].sessionId}
                            ELSE closedSessions
  /\ UNCHANGED <<variant, now, activeBrowserSessions, sig>>

\* server.js line 192, api/close-session.js line 275: browser.close()
\* settles; lines 194 / 276: the record is deleted
CloseSessionClosed(r) ==
  /\ Awaiting(r, "close")
  /\ \E o \in Outcomes :
       /\ req' = Step(r, CloseSessionRespond(req[r], o))
       /\ IF o = "ok"
          THEN /\ browsers' = Closed(browsers, req[r].sessionData.browser)
               /\ activeBrowserSessions' =
                    [activeBrowserSessions EXCEPT
                       ![CloseModule] = MapDelete(@, req[r].sessionId)]
               /\ sig' = IF variant = "persistent"
                         THEN IteratorAfterDelete(sig, activeBrowserSessions["server"],
                                                  req[r].sessionId)
                         ELSE sig
               /\ closedSessions' = closedSessions \cup {req[r].sessionId}
          ELSE UNCHANGED <<browsers, activeBrowserSessions, sig, closedSessions>>
  /\ UNCHANGED <<variant, now>>

\* ------------------------------------------------------- server.js  SIGINT
\* lines 213-223: the loop goes on to the next entry of the Map and calls
\* browser.close() on it, or, past the last entry, the process exits
SigintLoop(s, m) ==
  IF s.idx < Len(m)
  THEN [pc |-> "closing", idx |-> s.idx + 1, browser |-> m[s.idx + 1].value.browser]
  ELSE [s EXCEPT !.pc = "exited", !.browser = 0]

\* process.exit(0) ends every handler invocation with the process
AfterLoop(s, rs) == IF s.pc = "exited" THEN [r \in Reqs |-> IdleReq] ELSE rs

\* line 211: the signal arrives
Sigint ==
  /\ variant = "persistent"
  /\ sig.pc = "running"
  /\ sig' = SigintLoop(sig, activeBrowserSessions["server"])
  /\ browsers' = IF sig'.pc = "closing" THEN CallClose(browsers, sig'.browser)
                 ELSE browsers
  /\ req' = AfterLoop(sig', req)
  /\ UNCHANGED <<variant, now, activeBrowserSessions, closedSessions>>

\* lines 216-220: browser.close() settles, an error is logged
SigintClosed ==
  /\ sig.pc = "closing"
  /\ sig' = SigintLoop(sig, activeBrowserSessions["server"])
  /\ \E o \in {"ok", "Error"} :
       browsers' =
         LET settled == IF o = "ok" THEN Closed(browsers, sig.browser) ELSE browsers
         IN IF sig'.pc = "closing" THEN CallClose(settled, sig'.browser) ELSE settled
  /\ req' = AfterLoop(sig', req)
  /\ UNCHANGED <<variant, now, activeBrowserSessions, closedSessions>>

\* ============================================================= serverless
\* src/unnamed/part_001: three modules, each with its own Map and handler.
Methods == {"OPTIONS", "POST", "GET"}

\* what a handler is called with
Called(ep, method, id, u) ==
  [IdleReq EXCEPT !.ep = ep, !.method = method, !.sessionId = id, !.url = u,
                  !.acao = TRUE]      \* res.setHeader('Access-Control-Allow-Origin', '*')

\* lines 152, 250: const { sessionId, url } = req.body
ReadBody(rec) == [rec EXCEPT !.bodyRead = TRUE]

\* the method checks without the 405 case
MethodCheck_No405(rec, post) ==
  IF rec.method = "OPTIONS" THEN Finish(Respond(rec, 200, NoBody))
  ELSE post

\* the method checks without the OPTIONS case
MethodCheck_NoOptions(rec, post) ==
  IF rec.method # "POST"
  THEN Finish(Respond(rec, 405, ErrorBody("Method not allowed")))
  ELSE post

\* lines 47-54, 143-150, 242-248: the method checks every handler starts with;
\* rec when the method is POST
MethodCheck(rec, post) ==
  IF rec.method = "OPTIONS" THEN Finish(Respond(rec, 200, NoBody))
  ELSE IF rec.method # "POST"
  THEN Finish(Respond(rec, 405, ErrorBody("Method not allowed")))
  ELSE post

\* --------------------------------------------------- api/create-session.js
\* lines 39-64: launchBrowser() is called
VercelCreateSession(r) ==
  /\ variant = "serverless"
  /\ CanReceive(r)
  /\ \E method \in Methods :
       /\ method = "POST" => CanLaunch
       /\ req' = Step(r, MethodCheck(Called("create-session", method, NoId, ""),
                                     [Called("create-session", method, NoId, "")
                                        EXCEPT !.pc = "launch"]))
  /\ UNCHANGED <<variant, now, activeBrowserSessions, browsers, sig, closedSessions>>

\* lines 94-108: catch entered with the error e
VercelCreateCatch(rec, e) ==
  IF MentionsLibnss3(e)
  THEN Finish(Respond(Caught(rec, e), 500,
                      ErrorBody("Failed to launch browser: Missing system dependency (libnss3.so).")))
  ELSE IF rec.browserInstance # 0
  THEN [Caught(rec, e) EXCEPT !.pc = "catchClose"]
  ELSE Finish(Respond(Caught(rec, e), 500, ErrorBody("error.message")))

\* the catch calls browserInstance.close()
CatchCloses(rec) == rec.pc = "catchClose"

\* line 64: launchBrowser() settles
VercelCreateLaunched(r) ==
  /\ variant = "serverless"
  /\ req[r].ep = "create-session"
  /\ Awaiting(r, "launch")
  /\ \E o \in Outcomes :
       IF o = "ok"
       THEN /\ browsers' = Launch(browsers)
            /\ req' = Step(r, [req[r] EXCEPT !.browserInstance = Len(browsers) + 1,
                                              !.pc = "newPage"])
       ELSE /\ req' = Step(r, VercelCreateCatch(req[r], o))
            /\ UNCHANGED browsers
  /\ UNCHANGED <<variant, now, activeBrowserSessions, sig, closedSessions>>

\* line 65: browserInstance.newPage() settles
VercelCreateNewPage(r) ==
  /\ variant = "serverless"
  /\ req[r].ep = "create-session"
  /\ Awaiting(r, "newPage")
  /\ \E o \in PageOutcomes(req[r].browserInstance) :
       IF o = "ok"
       THEN /\ req' = Step(r, [req[r] EXCEPT !.pageInstance = req[r].browserInstance,
                                              !.pc = "setViewport"])
            /\ UNCHANGED browsers
       ELSE /\ req' = Step(r, VercelCreateCatch(req[r], o))
            /\ browsers' = IF CatchCloses(req'[r])
                           THEN CallClose(browsers, req[r].browserInstance)
                           ELSE browsers
  /\ UNCHANGED <<variant, now, activeBrowserSessions, sig, closedSessions>>

\* lines 69-92: the id, the record, the response
VercelCreateStore(rec, sessionId) ==
  Finish(Respond([rec EXCEPT !.sessionId = sessionId], 200,
                 DataBody(sessionId,
                          LiveViewUrlOf("/browser-view-placeholder.html", sessionId),
                          TRUE)))

\* line 66: pageInstance.setViewportSize() settles
VercelCreateSetViewportSize(r) ==
  /\ variant = "serverless"
  /\ req[r].ep = "create-session"
  /\ Awaiting(r, "setViewport")
  /\ \E o \in PageOutcomes(req[r].browserInstance) :
       IF o = "ok"
       THEN \E k \in 1..MaxRnd :
              /\ activeBrowserSessions' =
                   [activeBrowserSessions EXCEPT
                      !["create"] = StoreSession(@, SessionIdOf(now, k), req[r])]
              /\ req' = Step(r, VercelCreateStore(req[r], SessionIdOf(now, k)))
              /\ UNCHANGED browsers
       ELSE /\ req' = Step(r, VercelCreateCatch(req[r], o))
            /\ browsers' = IF CatchCloses(req'[r])
                           THEN CallClose(browsers, req[r].browserInstance)
                           ELSE browsers
            /\ UNCHANGED activeBrowserSessions
  /\ UNCHANGED <<variant, now, sig, closedSessions>>

\* the catch that closes the browser and then sends nothing
VercelCreateCatchClosed_NoResponse(r) ==
  /\ variant = "serverless"
  /\ Awaiting(r, "catchClose")
  /\ \E o \in {"ok", "Error"} :
       browsers' = IF o = "ok" THEN Closed(browsers, req[r].browserInstance)
                   ELSE browsers
  /\ req' = Step(r, Finish(req[r]))
  /\ UNCHANGED <<variant, now, activeBrowserSessions, sig, closedSessions>>

\* line 105: browserInstance.close().catch(...) settles; line 107
VercelCreateCatchClosed(r) ==
  /\ variant = "serverless"
  /\ Awaiting(r, "catchClose")
  /\ \E o \in {"ok", "Error"} :
       browsers' = IF o = "ok" THEN Closed(browsers, req[r].browserInstance)
                   ELSE browsers
  /\ req' = Step(r, Finish(Respond(req[r], 500, ErrorBody("error.message"))))
  /\ UNCHANGED <<variant, now, activeBrowserSessions, sig, closedSessions>>

\* --------------------------------------------------------- api/navigate.js
\* lines 152-195: the field check, the lookup, then page.goto() on the
\* record's page or chromium.launch()
VercelNavigateReceive(rec) ==
  IF MissingId(rec.sessionId) \/ MissingUrl(rec.url)
  THEN Finish(Respond(rec, 400,
                      ErrorBody("Session ID and URL are required in the request body.")))
  ELSE IF ~NoPage(MapGet(activeBrowserSessions["navigate"], rec.sessionId))
  THEN [rec EXCEPT !.sessionData = MapGet(activeBrowserSessions["navigate"], rec.sessionId),
                   !.browserInstance = MapGet(activeBrowserSessions["navigate"],
                                              rec.sessionId).browser,
                   !.pageInstance = MapGet(activeBrowserSessions["navigate"],
                                           rec.sessionId).page,
                   !.pc = "goto"]
  ELSE [rec EXCEPT !.pc = "launch"]

VercelNavigate(r) ==
  /\ variant = "serverless"
  /\ CanReceive(r)
  /\ \E method \in Methods, id \in ClientIds, u \in ClientUrls :
       /\ req' = Step(r, MethodCheck(Called("navigate", method, id, u),
                                     VercelNavigateReceive(
                                       ReadBody(Called("navigate", method, id, u)))))
       /\ req'[r].pc = "launch" => CanLaunch
  /\ UNCHANGED <<variant, now, activeBrowserSessions, browsers, sig, closedSessions>>

\* lines 216-224: finally, after the response
VercelNavigateFinally(rec) ==
  IF rec.browserWasNewlyLaunched /\ rec.browserInstance # 0
  THEN [rec EXCEPT !.pc = "finallyClose"]
  ELSE Finish(rec)

\* the catch without its TimeoutError case
VercelNavigateCatch_No504(rec, e) ==
  VercelNavigateFinally(Respond(Caught(rec, e), 500, ErrorBody("error.message")))

\* lines 208-215: catch entered with the error e, then finally
VercelNavigateCatch(rec, e) ==
  VercelNavigateFinally(
    IF ErrorName(e) = "TimeoutError"
    THEN Respond(Caught(rec, e), 504, ErrorBody("Navigation to url timed out."))
    ELSE Respond(Caught(rec, e), 500, ErrorBody("error.message")))

\* line 181: chromium.launch() settles
VercelNavigateLaunched(r) ==
  /\ variant = "serverless"
  /\ req[r].ep = "navigate"
  /\ Awaiting(r, "launch")
  /\ \E o \in Outcomes :
       IF o = "ok"
       THEN /\ browsers' = Launch(browsers)
            /\ req' = Step(r, [req[r] EXCEPT !.browserInstance = Len(browsers) + 1,
                                              !.pc = "newPage"])
       ELSE /\ req' = Step(r, VercelNavigateCatch(req[r], o))
            /\ UNCHANGED browsers
  /\ UNCHANGED <<variant, now, activeBrowserSessions, sig, closedSessions>>

\* line 192: browserInstance.newPage() settles
VercelNavigateNewPage(r) ==
  /\ variant = "serverless"
  /\ req[r].ep = "navigate"
  /\ Awaiting(r, "newPage")
  /\ \E o \in PageOutcomes(req[r].browserInstance) :
       IF o = "ok"
       THEN req' = Step(r, [req[r] EXCEPT !.pageInstance = req[r].browserInstance,
                                           !.pc = "setViewport"])
       ELSE req' = Step(r, VercelNavigateCatch(req[r], o))
  /\ UNCHANGED <<variant, now, activeBrowserSessions, browsers, sig, closedSessions>>

\* line 193: pageInstance.setViewportSize() settles; line 194: the flag;
\* line 202: page.goto() is called
VercelNavigateSetViewportSize(r) ==
  /\ variant = "serverless"
  /\ req[r].ep = "navigate"
  /\ Awaiting(r, "setViewport")
  /\ \E o \in PageOutcomes(req[r].browserInstance) :
       IF o = "ok"
       THEN req' = Step(r, [req[r] EXCEPT !.browserWasNewlyLaunched = TRUE,
                                           !.pc = "goto"])
       ELSE req' = Step(r, VercelNavigateCatch(req[r], o))
  /\ UNCHANGED <<variant, now, activeBrowserSessions, browsers, sig, closedSessions>>

\* lines 203-206 / 208-215, then finally
VercelNavigateRespond(rec, o) ==
  IF o = "ok"
  THEN VercelNavigateFinally(Respond(rec, 200, SuccessBody("Navigated to url")))
  ELSE VercelNavigateCatch(rec, o)

\* line 202: page.goto() settles
VercelNavigateGoto(r) ==
  /\ variant = "serverless"
  /\ Awaiting(r, "goto")
  /\ \E o \in PageOutcomes(req[r].browserInstance) :
       req' = Step(r, VercelNavigateRespond(req[r], o))
  /\ browsers' = IF req'[r].pc = "finallyClose"
                 THEN CallClose(browsers, req[r].browserInstance)
                 ELSE browsers
  /\ UNCHANGED <<variant, now, activeBrowserSessions, sig, closedSessions>>

\* line 222: browserInstance.close().catch(...) settles, either way
VercelNavigateFinallyClosed(r) ==
  /\ variant = "serverless"
  /\ Awaiting(r, "finallyClose")
  /\ \E o \in {"ok", "Error"} :
       browsers' = IF o = "ok" THEN Closed(browsers, req[r].browserInstance)
                   ELSE browsers
  /\ req' = Step(r, Finish(req[r]))
  /\ UNCHANGED <<variant, now, activeBrowserSessions, sig, closedSessions>>

\* ---------------------------------------------------- api/close-session.js
\* lines 250-275: the field check, the lookup, browser.close() is called
VercelCloseReceive(rec) ==
  IF MissingId(rec.sessionId)
  THEN Finish(Respond(rec, 400, ErrorBody("Session ID is required.")))
  ELSE IF MapGet(activeBrowserSessions["close"], rec.sessionId).browser # 0
  THEN [rec EXCEPT !.sessionData = MapGet(activeBrowserSessions["close"], rec.sessionId),
                   !.browserInstance = MapGet(activeBrowserSessions["close"],
                                              rec.sessionId).browser,
                   !.pc = "close"]
  ELSE Finish(Respond(rec, 200, SuccessBody("Session (possibly remote) considered closed.")))

VercelCloseSession(r) ==
  /\ variant = "serverless"
  /\ CanReceive(r)
  /\ \E method \in Methods, id \in ClientIds :
       /\ req' = Step(r, MethodCheck(Called("close-session", method, id, ""),
                                     VercelCloseReceive(
                                       ReadBody(Called("close-session", method, id, "")))))
       /\ browsers' = IF req'[r].pc = "close"
                      THEN CallClose(browsers, req'[r].sessionData.browser)
                      ELSE browsers
  /\ UNCHANGED <<variant, now, activeBrowserSessions, sig, closedSessions>>

\* ============================================================= simulation
\* src/unnamed/part_000  /api/create-session.  Time is counted per
\* invocation, in units of 500 ms, since its two timers were set.
\* lines 41-48: the 5 s abort timer and the simulated delay are set
SimCreateSession(r) ==
  /\ variant = "simulation"
  /\ CanReceive(r)
  /\ \E d \in SimDelayMin..SimDelayMax :
       req' = Step(r, [Routed("create-session", NoId, "") EXCEPT
                         !.timer = "armed", !.delay = d, !.pc = "delay"])
  /\ UNCHANGED <<variant, now, activeBrowserSessions, browsers, sig, closedSessions>>

\* a timer that is due runs before time goes on
TimerDue(rec) ==
  \/ rec.pc = "delay" /\ rec.age >= rec.delay
  \/ rec.timer = "armed" /\ rec.age >= SimAbortAfter

\* 500 ms pass
SimTick ==
  /\ variant = "simulation"
  /\ \E r \in Reqs : req[r].pc = "delay"
  /\ \A r \in Reqs : ~TimerDue(req[r])
  /\ req' = [r \in Reqs |->
               IF req[r].pc = "delay" THEN [req[r] EXCEPT !.age = req[r].age + 1]
               ELSE req[r]]
  /\ UNCHANGED <<variant, now, activeBrowserSessions, browsers, sig, closedSessions>>

\* lines 51-53, 77-89: the abort is noticed after the delay
SimTimedOut(rec) ==
  Finish(ClearTimeout(Respond(Caught(rec, "Error"), 504,
                              ErrorBody("Simulated session creation timed out."))))

\* lines 56-75, 88: the id, the response, clearTimeout
SimCreated(rec, sessionId) ==
  Finish(ClearTimeout(
    Respond([rec EXCEPT !.sessionId = sessionId], 200,
            DataBody(sessionId, LiveViewUrlOf("/browser-view.html", sessionId), FALSE))))

\* line 48: the simulated delay is over
SimDelayDone(r) ==
  /\ variant = "simulation"
  /\ Awaiting(r, "delay")
  /\ req[r].age >= req[r].delay
  /\ \E k \in 1..MaxRnd :
       req' = Step(r, IF req[r].timer = "fired"
                      THEN SimTimedOut(req[r])
                      ELSE SimCreated(req[r], SessionIdOf(now, k)))
  /\ UNCHANGED <<variant, now, activeBrowserSessions, browsers, sig, closedSessions>>

Next ==
  \/ Tick
  \/ \E r \in Reqs : ExpressOptions(r)
  \/ \E r \in Reqs : ServerCreateSession(r)
  \/ \E r \in Reqs : ServerCreateLaunched(r)
  \/ \E r \in Reqs : ServerCreateNewPage(r)
  \/ \E r \in Reqs : ServerCreateSetViewport(r)
  \/ \E r \in Reqs : ServerCreateCatchClosed(r)
  \/ \E r \in Reqs : CreateTimeout(r)
  \/ \E r \in Reqs : ServerNavigate(r)
  \/ \E r \in Reqs : ServerNavigateGoto(r)
  \/ \E r \in Reqs : ServerScreenshot(r)
  \/ \E r \in Reqs : ServerScreenshotTaken(r)
  \/ \E r \in Reqs : ServerCloseSession(r)
  \/ \E r \in Reqs : CloseSessionClosed(r)
  \/ Sigint
  \/ SigintClosed
  \/ \E r \in Reqs : VercelCreateSession(r)
  \/ \E r \in Reqs : VercelCreateLaunched(r)
  \/ \E r \in Reqs : VercelCreateNewPage(r)
  \/ \E r \in Reqs : VercelCreateSetViewportSize(r)
  \/ \E r \in Reqs : VercelCreateCatchClosed(r)
  \/ \E r \in Reqs : VercelNavigate(r)
  \/ \E r \in Reqs : VercelNavigateLaunched(r)
  \/ \E r \in Reqs : VercelNavigateNewPage(r)
  \/ \E r \in Reqs : VercelNavigateSetViewportSize(r)
  \/ \E r \in Reqs : VercelNavigateGoto(r)
  \/ \E r \in Reqs : VercelNavigateFinallyClosed(r)
  \/ \E r \in Reqs : VercelCloseSession(r)
  \/ \E r \in Reqs : SimCreateSession(r)
  \/ SimTick
  \/ \E r \in Reqs : SimDelayDone(r)

Spec == Init /\ [][Next]_vars

\* ================================================================= claims
\* the Map a handler of the deployed program looks its sessionId up in
TableOf(ep) ==
  IF variant = "persistent" THEN "server"
  ELSE IF ep = "navigate" THEN "navigate"
  ELSE IF ep = "close-session" THEN "close"
  ELSE "create"

\* in this step a request is received as invocation r
Received(r) == Free(r) /\ req'[r] # req[r] /\ req'[r].pc # "idle"

\* a request as the interface table describes it: the route's method and
\* every required field present
WellFormed(rec) ==
  /\ rec.method = RouteMethod(rec.ep)
  /\ rec.ep \in {"navigate", "close-session"} => ~MissingId(rec.sessionId)
  /\ rec.ep = "navigate" => ~MissingUrl(rec.url)

\* in this step a well-formed navigate, screenshot or close-session request
\* is received whose id has no record in the table
ReceivedUnknownId(r) ==
  /\ Received(r)
  /\ req'[r].ep \in {"navigate", "screenshot", "close-session"}
  /\ WellFormed(req'[r])
  /\ ~MapHas(activeBrowserSessions[TableOf(req'[r].ep)], req'[r].sessionId)

\* C1 as stated: in every variant a navigate, screenshot or close-session
\* request whose identifier has no record in the table is answered 404
\* (no other answer is given to it).
C1_UnknownIdIs404Everywhere ==
  [][\A r \in Reqs : ReceivedUnknownId(r) => req'[r].status \in {0, 404}]_vars

\* C1 amended: the persistent server answers such a request 404 at once; the
\* serverless handlers never answer 404: navigate goes on to launch a
\* browser for the request, close-session answers 200.
C1_UnknownIdIs404OnServer ==
  [][/\ \A r \in Reqs :
       ReceivedUnknownId(r) =>
         IF variant = "persistent"
         THEN req'[r].status = 404 /\ req'[r].pc = "done"
         ELSE /\ req'[r].ep = "navigate" => req'[r].status = 0 /\ req'[r].pc = "launch"
              /\ req'[r].ep = "close-session" =>
                   req'[r].status = 200 /\ req'[r].pc = "done"
     /\ \A r \in Reqs : variant = "serverless" => req'[r].status # 404]_vars

\* C1 witness: with a record in the table, the persistent server has
\* answered 404 to a navigate request for another id
C1_Witness ==
  /\ variant = "persistent"
  /\ \E r \in Reqs :
       /\ req[r].pc = "done" /\ req[r].ep = "navigate" /\ req[r].status = 404
       /\ Len(activeBrowserSessions["server"]) > 0
       /\ ~MapHas(activeBrowserSessions["server"], req[r].sessionId)

\* ---------------------------------------------------------------- C2
\* the records of a table, as a set
Entries(m) == {m[i] : i \in 1..Len(m)}

\* invocation r takes a step of its handler that is not the process ending
Steps(r) == req'[r] # req[r] /\ req[r].pc \notin {"idle", "done"} /\ sig'.pc # "exited"

C3_ClosedIdIs404Forever ==
  [][\A r \in Reqs :
       (/\ variant = "persistent"
        /\ Received(r)
        /\ req'[r].ep \in {"navigate", "screenshot", "close-session"}
        /\ WellFormed(req'[r])
        /\ req'[r].sessionId \in closedSessions) => req'[r].status = 404]_vars

\* ---------------------------------------------------------------- C4
\* in this step invocation r answers its create-session request with 200
CreateSucceeds(r) ==
  /\ req[r].ep = "create-session" /\ req[r].method = "POST"
  /\ req[r].status = 0 /\ req'[r].status = 200

\* C4: a successful create-session answers 200 with a data envelope, an id
\* of the form session-<timestamp>-<suffix> and a live-view URL whose
\* session_id parameter is that id; in the variants with a table, at that
\* moment the table holds under that id the browser and page this request
\* launched.
C4_CreateSuccessEnvelope ==
  [][\A r \in Reqs :
       CreateSucceeds(r) =>
         LET b == req'[r].body
         IN /\ b.kind = "data"
            /\ b.id # NoId /\ b.id.prefix = "session"
            /\ b.id.ts = now /\ b.id.rnd \in 1..MaxRnd
            /\ b.live_view_url.path # "" /\ b.live_view_url.session_id = b.id
            /\ variant # "simulation" =>
                 /\ req[r].browserInstance # 0 /\ req[r].pageInstance # 0
                 /\ {e \in Entries(activeBrowserSessions'[TableOf("create-session")]) :
                       e.key = b.id}
                    = {[key |-> b.id,
                        value |-> [browser |-> req[r].browserInstance,
                                   page |-> req[r].pageInstance]]}]_vars

\* C4 witness: the persistent server has answered a create-session with 200
\* and the id it returned is in the table
C4_Witness ==
  /\ variant = "persistent"
  /\ \E r \in Reqs :
       /\ req[r].ep = "create-session" /\ req[r].pc = "done" /\ req[r].status = 200
       /\ MapHas(activeBrowserSessions["server"], req[r].body.id)

\* ---------------------------------------------------------------- C5
\* a POST navigate without sessionId or url, or a POST close-session
\* without sessionId
LacksField(rec) ==
  /\ rec.method = "POST"
  /\ \/ rec.ep = "navigate" /\ (rec.sessionId = NoId \/ rec.url = "")
     \/ rec.ep = "close-session" /\ rec.sessionId = NoId

\* C5: such a request is answered 400 in the step that receives it, and
\* that step changes no table and launches or drives no browser.
C5_MissingFieldIs400 ==
  [][\A r \in Reqs :
       (Received(r) /\ LacksField(req'[r])) =>
          /\ req'[r].status = 400 /\ req'[r].pc = "done" /\ req'[r].responses = 1
          /\ req'[r].browserInstance = 0
          /\ activeBrowserSessions' = activeBrowserSessions
          /\ browsers' = browsers]_vars

\* C5 witness: a navigate naming a stored session but no url has been
\* answered 400
C5_Witness ==
  /\ variant = "persistent"
  /\ \E r \in Reqs :
       /\ req[r].ep = "navigate" /\ req[r].pc = "done" /\ req[r].status = 400
       /\ req[r].url = ""
       /\ MapHas(activeBrowserSessions["server"], req[r].sessionId)

\* ---------------------------------------------------------------- C6
\* invocation rec is a navigate whose page.goto() has settled and whose
\* response has been sent
PageOperationDone(rec) ==
  /\ rec.ep = "navigate" /\ rec.method = "POST"
  /\ IF variant = "persistent"
     THEN rec.pc = "done" /\ rec.status \notin {400, 404}
     ELSE rec.pc = "finallyClose" /\ rec.browserWasNewlyLaunched

\* timeout -> 504, any other error -> 500, success -> 200
StatusFor(error) ==
  IF error = "none" THEN 200
  ELSE IF ErrorName(error) = "TimeoutError" THEN 504 ELSE 500

\* C6 as stated: in every variant of the navigate handler a navigation that
\* timed out is answered 504, any other thrown error 500, success 200 with
\* {success, message}.
C6_NavigateOutcomeMapping ==
  \A r \in Reqs :
    PageOperationDone(req[r]) =>
       /\ req[r].status = StatusFor(req[r].error)
       /\ req[r].status = 200 => req[r].body.kind = "success"

\* C6 amended: the serverless handler maps this way; the persistent server
\* answers 500 to every thrown error, a navigation timeout included, and
\* 200 with {success, message} to success.
C6_NavigateOutcomeMappingPerVariant ==
  \A r \in Reqs :
    PageOperationDone(req[r]) =>
       /\ req[r].status = IF variant = "persistent" /\ req[r].error # "none"
                          THEN 500
                          ELSE StatusFor(req[r].error)
       /\ req[r].status = 200 <=> req[r].body.kind = "success"
       /\ req[r].responses = 1

\* C6 witness: the serverless handler has answered 504 to a navigation that
\* timed out on the page it launched
C6_Witness ==
  /\ variant = "serverless"
  /\ \E r \in Reqs :
       /\ PageOperationDone(req[r])
       /\ req[r].error = "TimeoutError" /\ req[r].status = 504

\* ---------------------------------------------------------------- C7
\* C7: in the persistent server a create-session whose 30-second timer has
\* fired while puppeteer.launch() is still pending has been answered 504.
C7_LaunchTimeoutIs504 ==
  \A r \in Reqs :
    (/\ variant = "persistent"
     /\ req[r].ep = "create-session"
     /\ req[r].timer = "fired"
     /\ req[r].pc = "launch") => req[r].status = 504

\* ---------------------------------------------------------------- C8
\* in this step an OPTIONS request is received and answered with the CORS
\* header, and the step launches or drives no browser and changes no table
OptionsAnswered(r) ==
  /\ req'[r].pc = "done" /\ req'[r].responses = 1
  /\ req'[r].acao /\ req'[r].body = NoBody
  /\ req'[r].browserInstance = 0
  /\ browsers' = browsers
  /\ activeBrowserSessions' = activeBrowserSessions

C9_NavigateClosesItsBrowser ==
  /\ activeBrowserSessions["navigate"] = <<>>
  /\ \A r \in Reqs :
       (/\ variant = "serverless"
        /\ req[r].ep = "navigate"
        /\ req[r].pc = "done"
        /\ req[r].browserInstance # 0) =>
           browsers[req[r].browserInstance].closeCalls >= 1

\* --------------------------------------------------------------- C10
\* invocation r is a navigate of the persistent server with page.goto() in
\* progress
InGoto(r) ==
  variant = "persistent" /\ req[r].ep = "navigate" /\ req[r].pc = "goto"

\* C10: when the page.goto() of one navigate settles, that request is
\* answered, once, with 200 or 500, and any other navigate whose page.goto()
\* is in progress stays as it is, to be answered in its own turn.
C10_EachNavigateGetsItsOwnResponse ==
  [][\A r \in Reqs :
       (InGoto(r) /\ Steps(r)) =>
          /\ req'[r].pc = "done"
          /\ req'[r].status \in {200, 500}
          /\ req'[r].responses = 1
          /\ \A q \in Reqs \ {r} : InGoto(q) =>
               req'[q] = req[q] /\ req[q].status = 0 /\ req[q].responses = 0]_vars

\* C10 witness: two navigate requests for the same stored session both have
\* page.goto() in progress on the same page
C10_Witness ==
  \E r, q \in Reqs :
    /\ r # q /\ InGoto(r) /\ InGoto(q)
    /\ req[r].sessionId = req[q].sessionId
    /\ req[r].sessionData.page # 0
    /\ req[r].sessionData.page = req[q].sessionData.page
    /\ MapHas(activeBrowserSessions["server"], req[r].sessionId)

\* --------------------------------------------------------------- C11
\* C11: in the variants that keep a table, the step in which a
\* create-session succeeds adds one record to the table and leaves every
\* record that was in it where and as it was.
C11_CreateAddsANewRecord ==
  [][\A r \in Reqs :
       (CreateSucceeds(r) /\ variant # "simulation") =>
          LET t  == activeBrowserSessions[TableOf("create-session")]
              t2 == activeBrowserSessions'[TableOf("create-session")]
          IN /\ Len(t2) = Len(t) + 1
             /\ \A i \in 1..Len(t) : t2[i] = t[i]
             /\ req'[r].body.id \notin MapKeys(t)]_vars

\* --------------------------------------------------------------- C12
\* C12: when a create-session that had launched a browser has finished
\* with anything but success, it was answered with an error status, close()
\* has been called on that browser and no record in the table refers to it.
C12_FailedCreateClosesItsBrowser ==
  \A r \in Reqs :
    (/\ variant \in {"persistent", "serverless"}
     /\ req[r].ep = "create-session" /\ req[r].method = "POST"
     /\ req[r].pc = "done" /\ req[r].error # "none"
     /\ req[r].browserInstance # 0) =>
        /\ req[r].status \in {500, 504}
        /\ browsers[req[r].browserInstance].closeCalls >= 1
        /\ \A e \in Entries(activeBrowserSessions[TableOf("create-session")]) :
             e.value.browser # req[r].browserInstance

\* --------------------------------------------------------------- C13
\* C13: when the persistent server exits through its SIGINT handler, close()
\* has been called on the browser of every record in the table, and no
\* close() the handler called is still pending.
C13_SigintClosesEveryRecord ==
  [][(variant = "persistent" /\ sig.pc # "exited" /\ sig'.pc = "exited") =>
       /\ \A e \in Entries(activeBrowserSessions["server"]) :
            browsers'[e.value.browser].closeCalls >= 1
       /\ sig.pc = "closing" => sig.idx >= Len(activeBrowserSessions["server"])]_vars

\* --------------------------------------------------------------- C14
\* C14: a serverless navigate request, with its fields, for an id whose
\* record is in the table create-session stored it in takes that record's
\* browser and page and goes on to page.goto(), launching nothing.
C14_NavigateReusesTheRecord ==
  [][\A r \in Reqs :
       (/\ variant = "serverless"
        /\ Received(r)
        /\ req'[r].ep = "navigate" /\ req'[r].method = "POST"
        /\ ~LacksField(req'[r])
        /\ MapHas(activeBrowserSessions["create"], req'[r].sessionId)) =>
           /\ req'[r].pc = "goto"
           /\ req'[r].browserInstance =
                MapGet(activeBrowserSessions["create"], req'[r].sessionId).browser
           /\ browsers' = browsers]_vars

\* --------------------------------------------------------------- C15
\* C15: each serverless handler answers an OPTIONS request 200, any other
\* request that is not a POST 405 whatever fields it carries, and only a
\* POST request reaches the field check; a request answered by the method
\* checks launches and drives no browser and changes no table.
C15_MethodChecksComeFirst ==
  [][\A r \in Reqs :
       (variant = "serverless" /\ Received(r)) =>
          /\ req'[r].method = "OPTIONS" => req'[r].status = 200
          /\ req'[r].method \notin {"OPTIONS", "POST"} =>
               /\ req'[r].status = 405 /\ req'[r].body = ErrorBody("Method not allowed")
          /\ req'[r].method # "POST" =>
               /\ req'[r].pc = "done" /\ req'[r].responses = 1
               /\ ~req'[r].bodyRead
               /\ req'[r].browserInstance = 0
               /\ browsers' = browsers
               /\ activeBrowserSessions' = activeBrowserSessions
          /\ req'[r].status = 400 => req'[r].method = "POST"
          /\ LacksField(req'[r]) => req'[r].status = 400]_vars

\* C15 witness: a serverless navigate request that is a GET and carries
\* neither sessionId nor url has been answered 405
C15_Witness ==
  /\ variant = "serverless"
  /\ \E r \in Reqs :
       /\ req[r].ep = "navigate" /\ req[r].method = "GET"
       /\ req[r].sessionId = NoId /\ req[r].url = ""
       /\ req[r].pc = "done" /\ req[r].status = 405

\* --------------------------------------------------------------- C16
\* invocation rec is a close-session whose browser.close() is pending
InClose(rec) == rec.ep = "close-session" /\ rec.pc = "close"

\* C16: when the browser.close() of a close-session throws, the request is
\* answered 500 and no table changes; and a close-session request for an
\* id whose record is in the handler's table, after such a failure as at
\* any other time, is not answered at once but calls browser.close() on
\* the record's browser.
C16_FailedCloseKeepsTheRecord ==
  [][\A r \in Reqs :
       /\ (InClose(req[r]) /\ Steps(r) /\ req'[r].error # "none") =>
             /\ req'[r].status = 500 /\ req'[r].pc = "done"
             /\ activeBrowserSessions' = activeBrowserSessions
             /\ browsers' = browsers
       /\ (/\ Received(r)
           /\ req'[r].ep = "close-session" /\ req'[r].method = "POST"
           /\ MapHas(activeBrowserSessions[CloseModule], req'[r].sessionId)) =>
             LET b == MapGet(activeBrowserSessions[CloseModule], req'[r].sessionId).browser
             IN /\ InClose(req'[r]) /\ req'[r].status = 0
                /\ req'[r].sessionData.browser = b
                /\ browsers'[b].closeCalls =
                     IF browsers[b].closeCalls < MaxCloseCalls
                     THEN browsers[b].closeCalls + 1 ELSE MaxCloseCalls]_vars

\* C16 witness: a close-session for an id has been answered 500, the record
\* is still in the table, and a later close-session for the same id has
\* called browser.close() again
C16_Witness ==
  /\ variant = "persistent"
  /\ \E q, r \in Reqs :
       /\ req[q].ep = "close-session" /\ req[q].pc = "done" /\ req[q].status = 500
       /\ InClose(req[r]) /\ req[r].sessionId = req[q].sessionId
       /\ MapHas(activeBrowserSessions["server"], req[r].sessionId)
       /\ browsers[req[r].sessionData.browser].closeCalls >= 2

\* --------------------------------------------------------------- C17
\* C17 as stated: in the persistent server no record refers to a browser
\* on which close() has been called, and no navigate or screenshot has its
\* page operation in progress on such a browser.
C17_NoRecordOfAClosingBrowser ==
  variant = "persistent" =>
    /\ \A e \in Entries(activeBrowserSessions["server"]) :
         browsers[e.value.browser].closeCalls = 0
    /\ \A r \in Reqs :
         req[r].pc \in {"goto", "screenshot"} =>
            browsers[req[r].sessionData.browser].closeCalls = 0

\* C17 amended: while no shutdown is in progress, no record refers to a
\* browser whose close() has resolved: close-session removes the record
\* in the step in which its close() resolves.  (A record does stay while a
\* close() on its browser is pending or has thrown.)
C17_NoRecordOfAClosedBrowser ==
  (variant = "persistent" /\ sig.pc = "running") =>
     \A e \in Entries(activeBrowserSessions["server"]) :
       ~browsers[e.value.browser].closed

\* C17 witness: a navigate has found a record and has page.goto() in
\* progress on a browser whose close() a close-session has called
C17_Witness ==
  /\ variant = "persistent" /\ sig.pc = "running"
  /\ \E r, q \in Reqs :
       /\ InGoto(r) /\ InClose(req[q])
       /\ req[r].sessionData.browser = req[q].sessionData.browser
       /\ browsers[req[r].sessionData.browser].closeCalls >= 1
       /\ MapHas(activeBrowserSessions["server"], req[r].sessionId)

\* --------------------------------------------------------------- C18
\* C18 as stated: in the persistent server two close-session requests
\* never both have browser.close() pending on the same browser.
C18_CloseIsCalledOnce ==
  variant = "persistent" =>
    \A r, q \in Reqs :
      (r # q /\ InClose(req[r]) /\ InClose(req[q])) =>
         req[r].sessionData.browser # req[q].sessionData.browser

\* C18 amended: every close-session request that finds the record calls
\* browser.close() itself, whether or not another close() on that browser
\* is pending, and is answered by the outcome of its own call: 200, with
\* no record left under the id, or 500; only a request that does not find
\* the record is answered 404.
C18_EachCloseCallsClose ==
  [][\A r \in Reqs :
       variant = "persistent" =>
         /\ (Received(r) /\ req'[r].ep = "close-session" /\ req'[r].sessionId # NoId) =>
               IF MapHas(activeBrowserSessions["server"], req'[r].sessionId)
               THEN /\ InClose(req'[r])
                    /\ browsers' # browsers \/
                         browsers[req'[r].sessionData.browser].closeCalls = MaxCloseCalls
               ELSE req'[r].status = 404 /\ req'[r].pc = "done"
         /\ (InClose(req[r]) /\ Steps(r)) =>
               /\ req'[r].pc = "done" /\ req'[r].responses = 1
               /\ req'[r].status = IF req'[r].error = "none" THEN 200 ELSE 500
               /\ req'[r].status = 200 =>
                    /\ req[r].sessionId \notin MapKeys(activeBrowserSessions'["server"])
                    /\ browsers'[req[r].sessionData.browser].closed]_vars

\* C18 witness: two close-session requests for the same id both have
\* browser.close() pending on the session's browser
C18_Witness ==
  /\ variant = "persistent" /\ sig.pc = "running"
  /\ \E r, q \in Reqs :
       /\ r # q /\ InClose(req[r]) /\ InClose(req[q])
       /\ req[r].sessionId = req[q].sessionId
       /\ req[r].sessionData.browser = req[q].sessionData.browser
       /\ browsers[req[r].sessionData.browser].closeCalls = 2

\* --------------------------------------------------------------- C19
\* C19: when the persistent server exits through its SIGINT handler, every
\* browser that was launched has been closed or has had close() called on
\* it.
C19_ExitLeavesNoBrowserOpen ==
  [][(variant = "persistent" /\ sig.pc # "exited" /\ sig'.pc = "exited") =>
       \A b \in 1..Len(browsers') :
         browsers'[b].closed \/ browsers'[b].closeCalls >= 1]_vars

\* --------------------------------------------------------------- C20
\* C20: in every variant an invocation has sent no response while its
\* handler is on the way to one, exactly one when the handler has returned
\* or is in the finally block that closes the browser it launched, and
\* never more than one.
C20_ExactlyOneResponse ==
  \A r \in Reqs :
    /\ req[r].responses <= 1
    /\ req[r].responses = 1 <=> req[r].status # 0
    /\ req[r].pc \in {"done", "finallyClose"} => req[r].responses = 1
    /\ req[r].pc \notin {"done", "finallyClose"} => req[r].responses = 0

\* C20 witness: a serverless create-session that failed after the launch
\* has closed its browser in the catch and has been answered once
C20_Witness ==
  /\ variant = "serverless"
  /\ \E r \in Reqs :
       /\ req[r].ep = "create-session" /\ req[r].pc = "done"
       /\ req[r].error \notin {"none", "libnss3"}
       /\ req[r].browserInstance # 0
       /\ browsers[req[r].browserInstance].closeCalls >= 1
       /\ req[r].responses = 1 /\ req[r].status = 500

\* --------------------------------------------------------------- C21
\* C21: in the simulation server the abort timer of a create-session never
\* fires; when the simulated delay, of at most 2.5 s, ends, the request is
\* answered 504 'Simulated session creation timed out.' exactly if the
\* timer had fired, hence 200 with the envelope, and the timer is cleared
\* when the handler finishes.
C21_SimulatedCreateAlwaysSucceeds ==
  [][\A r \in Reqs :
       variant = "simulation" =>
         /\ req'[r].timer # "fired"
         /\ req'[r].pc = "delay" =>
              req'[r].age <= req'[r].delay /\ req'[r].delay < SimAbortAfter
         /\ (req[r].pc = "delay" /\ req'[r].pc = "done") =>
              /\ req[r].age = req[r].delay
              /\ req'[r].status = 504 <=> req[r].timer = "fired"
              /\ req'[r].status = 504 =>
                   req'[r].body = ErrorBody("Simulated session creation timed out.")
              /\ req'[r].status = 200 /\ req'[r].responses = 1
              /\ req'[r].body.kind = "data"
              /\ req'[r].body.live_view_url.session_id = req'[r].body.id
              /\ req'[r].timer = "cleared"]_vars

\* C21 witness: one create-session of the simulation server has been
\* answered 200 with its timer cleared while another, with the longest
\* delay, is at the end of its delay with its timer still armed
C21_Witness ==
  /\ variant = "simulation"
  /\ \E r, q \in Reqs :
       /\ req[r].ep = "create-session" /\ req[r].pc = "done"
       /\ req[r].status = 200 /\ req[r].timer = "cleared"
       /\ req[q].pc = "delay" /\ req[q].delay = SimDelayMax
       /\ req[q].age = req[q].delay /\ req[q].timer = "armed"
====
